---- MODULE Spec2Model ----
(***************************************************************************)
(* A model of msrest.pipeline.async_abc: AsyncHTTPPolicy, the adapter      *)
(* _SansIOAsyncHTTPPolicyRunner, AsyncHTTPSender and AsyncPipeline.         *)
(*                                                                         *)
(* Objects are records [k, p, i]: k is the class, i the object's number,   *)
(* and p the pipeline whose constructor created it (adapters only).        *)
(* A run is a coroutine call stack: one frame per send() that has been     *)
(* entered and has not returned yet.                                       *)
(***************************************************************************)
EXTENDS Integers, Sequences, FiniteSets, TLC

\* ------------------------------------------------------------------ bounds
MaxPolicies == 2    \* longest policy list given to AsyncPipeline()
MaxPipelines == 2   \* AsyncPipeline objects constructed in one behaviour
MaxRuns == 2        \* calls of AsyncPipeline.run in one behaviour
MaxFailures == 2    \* errors the transports and the hooks raise in one behaviour
ScopePolicies == 1  \* longest policy list where scopes are entered and exited

\* ----------------------------------------------------------------- objects
None == [k |-> "none", p |-> 0, i |-> 0]
FullPolicy(i) == [k |-> "full", p |-> 0, i |-> i]
SansIOPolicy(i) == [k |-> "sansio", p |-> 0, i |-> i]
Runner(p, i) == [k |-> "adapter", p |-> p, i |-> i]
HTTPSender(i) == [k |-> "sender", p |-> 0, i |-> i]

\* The caller's objects: two full policies, one simplified policy, a sender
\* that keeps the default build_context and one that overrides it.
FullPolicies == {FullPolicy(1), FullPolicy(2)}
SansIOPolicies == {SansIOPolicy(1)}
\* A simplified policy whose hooks may raise; the hooks of the one above
\* always return.
RaisingPolicies == {SansIOPolicy(2)}
DefaultSender == HTTPSender(1)
ContextSender == HTTPSender(2)
Senders == {DefaultSender, ContextSender}
\* Two ClientRequest objects; the caller sends each with its own options.
Requests == {1, 2}
ScopeRequest == CHOOSE r \in Requests : \A q \in Requests : r <= q
Options(req) == IF req = 1 THEN "kwA" ELSE "kwB"

Runners == {Runner(p, i) : p \in 1..MaxPipelines, i \in 1..MaxPolicies}
PolicyNodes == FullPolicies \cup Runners
Nodes == PolicyNodes \cup Senders

\* Every list of at most n caller policies, repeats included.
RECURSIVE PolicyLists(_)
PolicyLists(n) ==
    IF n = 0 THEN {<<>>}
    ELSE LET shorter == PolicyLists(n - 1)
         IN shorter \cup {Append(l, x) : l \in {s \in shorter : Len(s) = n - 1},
                                         x \in FullPolicies \cup SansIOPolicies}

\* Every list of at most n of the objects, repeats included.
RECURSIVE ListsOf(_, _)
ListsOf(objects, n) ==
    IF n = 0 THEN {<<>>}
    ELSE LET shorter == ListsOf(objects, n - 1)
         IN shorter \cup {Append(l, x) : l \in {s \in shorter : Len(s) = n - 1}, x \in objects}

\* ---------------------------------------------------------------- outcomes
NoValue == [t |-> "none", by |-> None, req |-> 0]
Response(node, req) == [t |-> "resp", by |-> node, req |-> req]
Error(node, req) == [t |-> "err", by |-> node, req |-> req]

VARIABLES
    next,            \* AsyncHTTPPolicy.next of every policy node
    _policy,         \* _SansIOAsyncHTTPPolicyRunner._policy of every adapter
    pipelines,       \* the AsyncPipeline objects, in construction order
    senderScope,     \* each sender's scope: "unopened", "open", "closed"
    request,         \* each ClientRequest's pipeline_context
    buildCalls,      \* calls of build_context() on each sender so far
    runs,            \* the last call of run() on each request
    calls,           \* calls of run() so far
    failures,        \* errors the senders and the hooks have raised so far
    scope,           \* the scope calls made on each pipeline, as the caller sees them
    exc,             \* what the step just taken raised at once to its caller
    assigned,        \* assignments of a next attribute on each object so far
    awaited          \* what the scope call just made awaited on the sender, and returned

vars == <<next, assigned, _policy, pipelines, senderScope, request, buildCalls, runs, calls, failures, scope, exc,
          assigned, awaited>>

NoRun == [pid |-> 0, call |-> 0, req |-> 0, kw |-> "none", context |-> None, scope |-> "none",
          before |-> None, stack |-> <<>>, ret |-> NoValue, status |-> "idle",
          result |-> NoValue, trace |-> <<>>]

\* A scope call on the sender: __aenter__() or __aexit__(*details).
SenderCall(op, sender, details) == [op |-> op, on |-> sender, details |-> details]

\* The exception details __aexit__ is given: none when the block ended
\* normally, those of the exception that ended it otherwise.
NoExcDetails == "none"
ExcDetails == {NoExcDetails, "exception"}

\* No scope call was just made.
NoAwait == [calls |-> <<>>, ret |-> 0]

\* AsyncHTTPPolicy.__init__: a policy is created with no next node.
Init ==
    /\ next = [n \in PolicyNodes |-> None]
    /\ _policy = [n \in Runners |-> None]
    /\ pipelines = <<>>
    /\ senderScope = [s \in Senders |-> "unopened"]
    /\ request = [r \in Requests |-> [pipeline_context |-> None]]
    /\ buildCalls = [s \in Senders |-> 0]
    /\ runs = [r \in Requests |-> NoRun]
    /\ calls = 0
    /\ failures = 0
    /\ scope = <<>>
    /\ exc = "none"
    /\ assigned = [n \in PolicyNodes \cup SansIOPolicies \cup RaisingPolicies |-> 0]
    /\ awaited = NoAwait

\* ------------------------------------------------- AsyncPipeline.__init__
\* The first loop: a simplified policy is wrapped in a new adapter, a full
\* policy is taken as it is.
ImplPolicies(pid, policies) ==
    [i \in 1..Len(policies) |->
        IF policies[i].k = "sansio" THEN Runner(pid, i) ELSE policies[i]]

\* The second loop, one assignment after the other from index on.
RECURSIVE LinkPolicies(_, _, _)
LinkPolicies(nx, impl, index) ==
    IF index > Len(impl) - 1 THEN nx
    ELSE LinkPolicies([nx EXCEPT ![impl[index]] = impl[index + 1]], impl, index + 1)

\* The last node's next is the sender.
LinkSender(nx, impl, sender) ==
    IF impl # <<>> THEN [nx EXCEPT ![impl[Len(impl)]] = sender] ELSE nx

\* The objects whose next the two assignments set, counted: line 140 at
\* every position but the last, line 142 at the last.
Assigned(count, impl) ==
    [n \in DOMAIN count |-> count[n] + Cardinality({i \in 1..Len(impl) : impl[i] = n})]

\* AsyncPipeline(policies, sender). The caller always gives a sender: the
\* default AioHTTPSender is imported from another module.
Construct(policies, sender) ==
    LET pid == Len(pipelines) + 1
        impl == ImplPolicies(pid, policies)
    IN /\ Len(pipelines) < MaxPipelines
       /\ pipelines' = Append(pipelines, [_impl_policies |-> impl, _sender |-> sender])
       /\ _policy' = [n \in Runners |->
                        IF n.p = pid /\ n.i \in 1..Len(policies) /\ policies[n.i].k = "sansio"
                        THEN policies[n.i] ELSE _policy[n]]
       /\ next' = LinkSender(LinkPolicies(next, impl, 1), impl, sender)
       /\ assigned' = Assigned(assigned, impl)
       /\ scope' = Append(scope, "unopened")
       /\ exc' = "none"
       /\ awaited' = NoAwait
       /\ UNCHANGED <<senderScope, request, buildCalls, runs, calls, failures>>

\* A first node that falls back on a default sender, not the pipeline's.
FirstNodeOrDefault(pl) ==
    IF pl._impl_policies # <<>> THEN pl._impl_policies[1] ELSE DefaultSender

\* first_node in run: the first policy node, the sender when there is none.
FirstNode(pl) ==
    IF pl._impl_policies # <<>> THEN pl._impl_policies[1] ELSE pl._sender

\* The chain from node: next after next, for at most n steps.
RECURSIVE Chain(_, _)
Chain(node, n) ==
    IF node = None \/ n = 0 THEN <<>>
    ELSE IF node.k = "sender" THEN <<node>>
    ELSE <<node>> \o Chain(next[node], n - 1)

\* ------------------------------------------------------------ scope calls
\* What the sender's scope is after the calls made on it: __aenter__ opens
\* it, __aexit__ closes it.
RECURSIVE SenderScopeAfter(_, _)
SenderScopeAfter(ss, made) ==
    IF made = <<>> THEN ss
    ELSE SenderScopeAfter([ss EXCEPT ![Head(made).on] =
                              IF Head(made).op = "__aenter__" THEN "open" ELSE "closed"],
                          Tail(made))

\* A pipeline that keeps its own state and enters the sender's scope only
\* when it is not open yet.
AEnterOnce(pid) ==
    IF scope[pid] = "open" THEN <<>>
    ELSE <<SenderCall("__aenter__", pipelines[pid]._sender, <<>>)>>

\* await self._sender.__aenter__()
AEnterCalls(pid) == <<SenderCall("__aenter__", pipelines[pid]._sender, <<>>)>>

\* await self._sender.__aexit__(*exc_details)
AExitCalls(pid, details) == <<SenderCall("__aexit__", pipelines[pid]._sender, details)>>

\* AsyncPipeline.__aenter__: the sender's scope is entered, the pipeline is
\* returned.
AEnter(pid) ==
    /\ pid \in 1..Len(pipelines)
    /\ awaited' = [calls |-> AEnterCalls(pid), ret |-> pid]
    /\ senderScope' = SenderScopeAfter(senderScope, awaited'.calls)
    /\ scope' = [scope EXCEPT ![pid] = "open"]
    /\ exc' = "none"
    /\ UNCHANGED <<next, assigned, _policy, pipelines, request, buildCalls, runs, calls, failures>>

\* AsyncPipeline.__aexit__(*exc_details): the sender's scope is exited with
\* the same details; nothing is returned.
AExit(pid, details) ==
    /\ pid \in 1..Len(pipelines)
    /\ awaited' = [calls |-> AExitCalls(pid, details), ret |-> 0]
    /\ senderScope' = SenderScopeAfter(senderScope, awaited'.calls)
    /\ scope' = [scope EXCEPT ![pid] = "closed"]
    /\ exc' = "none"
    /\ UNCHANGED <<next, assigned, _policy, pipelines, request, buildCalls, runs, calls, failures>>

\* A synchronous __enter__ that enters the sender's scope, as a blocking
\* pipeline's does.
SyncEnterOpens(sender) ==
    /\ exc' = "none"
    /\ awaited' = NoAwait
    /\ senderScope' = [senderScope EXCEPT ![sender] = "open"]
    /\ UNCHANGED scope

\* AsyncPipeline.__enter__ and AsyncHTTPSender.__enter__: raise TypeError.
\* sender is the sender itself, or the pipeline's.
SyncEnter(sender) ==
    /\ exc' = "TypeError"
    /\ awaited' = NoAwait
    /\ UNCHANGED <<senderScope, scope>>

Enter(pid) ==
    /\ pid \in 1..Len(pipelines)
    /\ SyncEnter(pipelines[pid]._sender)
    /\ UNCHANGED <<next, assigned, _policy, pipelines, request, buildCalls, runs, calls, failures>>

SenderEnter(s) ==
    /\ s \in Senders
    /\ SyncEnter(s)
    /\ UNCHANGED <<next, assigned, _policy, pipelines, request, buildCalls, runs, calls, failures>>

\* AsyncPipeline.__exit__ and AsyncHTTPSender.__exit__: pass.
Exit ==
    /\ exc' = "none"
    /\ awaited' = NoAwait
    /\ UNCHANGED <<next, assigned, _policy, pipelines, senderScope, request, buildCalls, runs, calls, failures, scope>>

\* -------------------------------------------------------------------- runs
\* A run is suspended only where a full policy decides what to do and where
\* the sender waits for the network: an adapter's code and the returns run
\* through without a suspension.
Frame(node, req, kw) == [node |-> node, pc |-> "start", req |-> req, kw |-> kw]

\* A call of a hook: val is the response it is given, out the error it
\* raised, if any.
HookEvent(ev, node, d, req, kw, ctx, val, out) ==
    [ev |-> ev, node |-> node, d |-> d, req |-> req, kw |-> kw, ctx |-> ctx, val |-> val,
     out |-> out]

Event(ev, node, d, req, kw, ctx, val) == HookEvent(ev, node, d, req, kw, ctx, val, NoValue)

Top(run) == run.stack[Len(run.stack)]

\* node.send(req, **kw) is called: a frame is pushed. ctx is the
\* pipeline_context the node finds on the request.
Invoke(run, node, req, kw, ctx) ==
    [run EXCEPT !.stack = Append(@, Frame(node, req, kw)),
                !.ret = NoValue,
                !.trace = Append(@, Event("send", node, Len(run.stack) + 1, req, kw, ctx, NoValue))]

\* The top frame's send() ends with outcome (a response returned, an error
\* raised), which its caller finds in ret.
Pop(run, ev, outcome, reqs) ==
    LET f == Top(run)
    IN [run EXCEPT !.stack = SubSeq(@, 1, Len(@) - 1),
                   !.ret = outcome,
                   !.trace = Append(@, Event(ev, f.node, Len(run.stack), f.req, f.kw,
                                             reqs[f.req].pipeline_context, outcome))]

Running(r) == runs[r].status = "running"

AtTop(r, kind, pc) ==
    /\ Running(r)
    /\ runs[r].stack # <<>>
    /\ Top(runs[r]).node.k = kind
    /\ Top(runs[r]).pc = pc

Await(run) == [run EXCEPT !.stack[Len(run.stack)].pc = "await"]

\* A run that wraps the error in one of its own.
RunResultWrapped(outcome) ==
    IF outcome.t = "err" THEN Error(None, outcome.req) ELSE outcome

\* AsyncPipeline.run returns what the first node's send returned, or the
\* error it raised goes on to the caller.
RunResult(outcome) == outcome

\* A run that calls the sender itself once the first node is done.
FinishViaSender(run, reqs) ==
    Invoke(run, pipelines[run.pid]._sender, run.req, run.kw, reqs[run.req].pipeline_context)

\* return await first_node.send(request, **kwargs): the run is over.
Finish(run, reqs) ==
    [run EXCEPT !.status = IF RunResult(run.ret).t = "resp" THEN "returned" ELSE "raised",
                !.result = RunResult(run.ret),
                !.ret = NoValue]

\* ------------------------------------- _SansIOAsyncHTTPPolicyRunner.send
\* An adapter that keeps the request in an attribute of its own, which
\* another run in progress has set.
RunnerSharedRequest(f) ==
    LET others == {q \in Requests : Running(q) /\ q # f.req}
    IN IF others = {} THEN f.req ELSE CHOOSE q \in others : TRUE

\* The request send() works on: its parameter, a local of the frame.
RunnerRequest(f) == f.req

\* An adapter that forwards with no options.
RunnerForwardBare(f) == [node |-> next[f.node], req |-> RunnerRequest(f), kw |-> "none"]

\* self.next.send(request, **kwargs): the node and the arguments.
RunnerForward(f) == [node |-> next[f.node], req |-> RunnerRequest(f), kw |-> f.kw]

\* on_request, then the call of next.send.
RunnerSend(run, reqs) ==
    LET f == Top(run)
        req == RunnerRequest(f)
        hooked == [run EXCEPT !.trace = Append(@, Event("on_request", _policy[f.node],
                                Len(run.stack), req, f.kw, reqs[req].pipeline_context, NoValue))]
        call == RunnerForward(f)
    IN Invoke(Await(hooked), call.node, call.req, call.kw, reqs[call.req].pipeline_context)

\* An adapter that goes on to next.send although on_request raised.
RunnerRequestSwallowed(run, reqs) ==
    LET f == Top(run)
        req == RunnerRequest(f)
        err == Error(_policy[f.node], req)
        hooked == [run EXCEPT !.trace = Append(@, HookEvent("on_request", _policy[f.node],
                                Len(run.stack), req, f.kw, reqs[req].pipeline_context, NoValue, err))]
    IN Invoke(Await(hooked), next[f.node], req, f.kw, reqs[req].pipeline_context)

\* on_request raises: nothing in send catches it, the line after it is not
\* reached.
RunnerRequestRaised(run, reqs) ==
    LET f == Top(run)
        req == RunnerRequest(f)
        err == Error(_policy[f.node], req)
        hooked == [run EXCEPT !.trace = Append(@, HookEvent("on_request", _policy[f.node],
                                Len(run.stack), req, f.kw, reqs[req].pipeline_context, NoValue, err))]
    IN Pop(hooked, "raise", err, reqs)

\* An adapter that returns what on_response returned.
RunnerResultOfHook(response) == NoValue

\* return response
RunnerResult(response) == response

\* next.send returned: on_response, then the response is returned.
RunnerResponse(run, reqs) ==
    LET f == Top(run)
        req == RunnerRequest(f)
        hooked == [run EXCEPT !.trace = Append(@, Event("on_response", _policy[f.node],
                                Len(run.stack), req, f.kw, reqs[req].pipeline_context, run.ret))]
    IN Pop(hooked, "return", RunnerResult(run.ret), reqs)

\* next.send returned and on_response raises: send raises its error.
RunnerResponseRaised(run, reqs) ==
    LET f == Top(run)
        req == RunnerRequest(f)
        err == Error(_policy[f.node], req)
        hooked == [run EXCEPT !.trace = Append(@, HookEvent("on_response", _policy[f.node],
                                Len(run.stack), req, f.kw, reqs[req].pipeline_context, run.ret, err))]
    IN Pop(hooked, "raise", err, reqs)

\* An adapter that catches the error and sends again.
RunnerRetry(run, reqs) ==
    LET f == Top(run)
        hooked == [run EXCEPT !.trace = Append(@, Event("on_request", _policy[f.node],
                                Len(run.stack), f.req, f.kw, reqs[f.req].pipeline_context, NoValue))]
    IN Invoke(hooked, next[f.node], f.req, f.kw, reqs[f.req].pipeline_context)

\* next.send raised: nothing in send catches it.
RunnerRaise(run, reqs) == Pop(run, "raise", run.ret, reqs)

\* ------------------------------------------------- AsyncHTTPPolicy.send
\* A policy that answers a response of next.send by forwarding again.
PolicyResend(run, reqs) ==
    LET f == Top(run)
    IN Invoke(run, next[f.node], f.req, f.kw, reqs[f.req].pipeline_context)

\* The method is abstract: what a caller's full policy may do. Given the
\* response of next.send it returns it.
PolicyReturn(run, reqs) == Pop(run, "return", run.ret, reqs)

\* The hooks are the caller's code: each call returns or, with a policy
\* whose hooks may raise, raises. A fault names the hook call that raises
\* in the step taken; the calls before it return, and after it the step
\* calls no hook.
NoFault == [node |-> None, hook |-> "none"]
Faults == {NoFault} \cup {[node |-> a, hook |-> h] : a \in Runners, h \in {"on_request", "on_response"}}
Raises(fault, node, hook) == fault = [node |-> node, hook |-> hook]

\* The run goes on to where it is suspended next, or to its end: an
\* adapter's send and the returns are not suspended. The run so far is
\* evaluated once, as the value of a bound variable.
RECURSIVE Settle(_, _, _)
Settle(sofar, reqs, fault) ==
    LET Go(run) ==
        IF run.status # "running" THEN run
        ELSE IF run.stack = <<>> THEN Settle(Finish(run, reqs), reqs, fault)
        ELSE LET f == Top(run)
             IN IF f.pc = "start"
                THEN IF f.node.k = "adapter"
                     THEN IF Raises(fault, f.node, "on_request")
                          THEN Settle(RunnerRequestRaised(run, reqs), reqs, fault)
                          ELSE Settle(RunnerSend(run, reqs), reqs, fault)
                     ELSE run
                ELSE IF run.ret.t = "resp"
                     THEN IF f.node.k = "adapter"
                          THEN IF Raises(fault, f.node, "on_response")
                               THEN Settle(RunnerResponseRaised(run, reqs), reqs, fault)
                               ELSE Settle(RunnerResponse(run, reqs), reqs, fault)
                          ELSE Settle(PolicyReturn(run, reqs), reqs, fault)
                ELSE IF run.ret.t = "err" /\ f.node.k = "adapter"
                     THEN Settle(RunnerRaise(run, reqs), reqs, fault)
                ELSE run
    IN CHOOSE out \in {Go(run) : run \in {sofar}} : TRUE

\* The run on request r goes on from run, with the fault chosen: a fault
\* is chosen only where its hook is called, and counts as a failure.
Advance(r, run, reqs, fault) ==
    LET out == Settle(run, reqs, fault)
    IN /\ fault # NoFault =>
            /\ _policy[fault.node] \in RaisingPolicies
            /\ failures < MaxFailures
            /\ out # Settle(run, reqs, NoFault)
       /\ runs' = [runs EXCEPT ![r] = out]
       /\ failures' = failures + (IF fault = NoFault THEN 0 ELSE 1)

\* It forwards to next.send.
PolicyForward(r) ==
    /\ AtTop(r, "full", "start")
    /\ LET f == Top(runs[r])
       IN \E fault \in Faults :
            Advance(r, Invoke(Await(runs[r]), next[f.node], f.req, f.kw,
                              request[f.req].pipeline_context), request, fault)
    /\ UNCHANGED <<next, assigned, _policy, pipelines, senderScope, request, buildCalls, calls, scope>>
    /\ exc' = "none"
    /\ awaited' = NoAwait

\* The options a full policy makes up for the nodes below it.
PolicyOptions(node) == IF node = FullPolicy(1) THEN "kwF1" ELSE "kwF2"

\* It forwards to next.send with options of its own.
PolicyForwardOptions(r) ==
    /\ AtTop(r, "full", "start")
    /\ LET f == Top(runs[r])
       IN \E fault \in Faults :
            Advance(r, Invoke(Await(runs[r]), next[f.node], f.req, PolicyOptions(f.node),
                              request[f.req].pipeline_context), request, fault)
    /\ UNCHANGED <<next, assigned, _policy, pipelines, senderScope, request, buildCalls, calls, scope>>
    /\ exc' = "none"
    /\ awaited' = NoAwait

\* It returns a response of its own without forwarding.
PolicyShortCircuit(r) ==
    /\ AtTop(r, "full", "start")
    /\ LET f == Top(runs[r])
       IN \E fault \in Faults :
            Advance(r, Pop(runs[r], "short", Response(f.node, f.req), request), request, fault)
    /\ UNCHANGED <<next, assigned, _policy, pipelines, senderScope, request, buildCalls, calls, scope>>
    /\ exc' = "none"
    /\ awaited' = NoAwait

\* It lets the error next.send raised go on.
PolicyRaise(r) ==
    /\ AtTop(r, "full", "await")
    /\ runs[r].ret.t = "err"
    /\ runs' = [runs EXCEPT ![r] = Settle(Pop(runs[r], "raise", runs[r].ret, request), request,
                                          NoFault)]
    /\ UNCHANGED <<next, assigned, _policy, pipelines, senderScope, request, buildCalls, calls, failures, scope>>
    /\ exc' = "none"
    /\ awaited' = NoAwait

\* It catches the error and forwards again (a retry policy).
PolicyRetry(r) ==
    /\ AtTop(r, "full", "await")
    /\ runs[r].ret.t = "err"
    /\ LET f == Top(runs[r])
       IN \E fault \in Faults :
            Advance(r, Invoke(runs[r], next[f.node], f.req, f.kw,
                              request[f.req].pipeline_context), request, fault)
    /\ UNCHANGED <<next, assigned, _policy, pipelines, senderScope, request, buildCalls, calls, scope>>
    /\ exc' = "none"
    /\ awaited' = NoAwait

\* ------------------------------------------------- AsyncHTTPSender.send
\* The method is abstract: the transport returns a response or raises.
SenderRespond(r) ==
    /\ AtTop(r, "sender", "start")
    /\ LET f == Top(runs[r])
       IN \E fault \in Faults :
            Advance(r, Pop(runs[r], "return", Response(f.node, f.req), request), request, fault)
    /\ UNCHANGED <<next, assigned, _policy, pipelines, senderScope, request, buildCalls, calls, scope>>
    /\ exc' = "none"
    /\ awaited' = NoAwait

SenderFail(r) ==
    /\ AtTop(r, "sender", "start")
    /\ failures < MaxFailures
    /\ LET f == Top(runs[r])
       IN runs' = [runs EXCEPT ![r] = Settle(Pop(runs[r], "raise", Error(f.node, f.req),
                                                 request), request, NoFault)]
    /\ failures' = failures + 1
    /\ UNCHANGED <<next, assigned, _policy, pipelines, senderScope, request, buildCalls, calls, scope>>
    /\ exc' = "none"
    /\ awaited' = NoAwait

\* ------------------------------------------------------ AsyncPipeline.run
\* AsyncHTTPSender.build_context: None unless the sender overrides it; the
\* overriding sender builds a new context at every call.
BuildContext(sender) ==
    IF sender = DefaultSender THEN None
    ELSE [k |-> "context", p |-> 0, i |-> buildCalls[sender] + 1]

\* A run that calls build_context() a second time for the value it attaches.
CallBuildContextTwice(sender) == [buildCalls EXCEPT ![sender] = @ + 2]

\* context = self._sender.build_context(): one call.
CallBuildContext(sender) == [buildCalls EXCEPT ![sender] = @ + 1]

\* A run that does not attach the context.
AttachNothing(req, context) == request

\* request.pipeline_context = context
AttachContext(req, context) ==
    [request EXCEPT ![req].pipeline_context = context]

\* AsyncPipeline.run(request, **kwargs), to where the run is first
\* suspended.
Run(pid, req, kw) ==
    /\ pid \in 1..Len(pipelines)
    /\ calls < MaxRuns
    /\ ~Running(req)
    /\ LET pl == pipelines[pid]
           context == BuildContext(pl._sender)
           new == [pid |-> pid, call |-> calls + 1, req |-> req, kw |-> kw,
                   context |-> context, scope |-> scope[pid],
                   before |-> request[req].pipeline_context,
                   stack |-> <<>>, ret |-> NoValue, status |-> "running",
                   result |-> NoValue, trace |-> <<>>]
       IN /\ request' = AttachContext(req, context)
          /\ buildCalls' = CallBuildContext(pl._sender)
          /\ \E fault \in Faults :
                Advance(req, Invoke(new, FirstNode(pl), req, kw,
                                    request'[req].pipeline_context), request', fault)
    /\ calls' = calls + 1
    /\ UNCHANGED <<next, assigned, _policy, pipelines, senderScope, scope>>
    /\ exc' = "none"
    /\ awaited' = NoAwait

\* ---------------------------------------------------------- specifications
\* One step of a run that has been started.
Step(r) ==
    \/ PolicyForward(r) \/ PolicyShortCircuit(r)
    \/ PolicyRaise(r) \/ PolicyRetry(r)
    \/ SenderRespond(r) \/ SenderFail(r)

\* The state after AsyncPipeline(policies, sender) in a new program, and
\* after entering its scope with async with when entered.
Built(policies, sender, entered) ==
    LET impl == ImplPolicies(1, policies)
    IN /\ next = LinkSender(LinkPolicies([n \in PolicyNodes |-> None], impl, 1), impl, sender)
       /\ _policy = [n \in Runners |->
                        IF n.p = 1 /\ n.i \in 1..Len(policies) /\ policies[n.i].k = "sansio"
                        THEN policies[n.i] ELSE None]
       /\ pipelines = <<[_impl_policies |-> impl, _sender |-> sender]>>
       /\ senderScope = [s \in Senders |-> IF entered /\ s = sender THEN "open" ELSE "unopened"]
       /\ request = [r \in Requests |-> [pipeline_context |-> None]]
       /\ buildCalls = [s \in Senders |-> 0]
       /\ runs = [r \in Requests |-> NoRun]
       /\ calls = 0
       /\ failures = 0
       /\ scope = <<IF entered THEN "open" ELSE "unopened">>
       /\ exc = "none"
       /\ assigned = Assigned([n \in PolicyNodes \cup SansIOPolicies \cup RaisingPolicies |-> 0], impl)
       /\ awaited = NoAwait

\* The caller builds pipelines, one after the other.
NextBuild ==
    \E policies \in PolicyLists(MaxPolicies), sender \in Senders : Construct(policies, sender)

SpecBuild == Init /\ [][NextBuild]_vars

\* The caller has built one pipeline and entered its scope, and calls run
\* on it, each request object in one run at a time.
InitRun ==
    \E policies \in PolicyLists(MaxPolicies), sender \in Senders : Built(policies, sender, TRUE)

NextRun ==
    \/ \E req \in Requests : Run(1, req, Options(req))
    \/ \E r \in Requests : Step(r)

SpecRun == InitRun /\ [][NextRun]_vars

\* The caller builds pipelines of short lists, enters and exits their scopes
\* in any order and way, and calls run at any time, one run after the other
\* on one request object.
NextScope ==
    \/ \E policies \in PolicyLists(ScopePolicies), sender \in Senders : Construct(policies, sender)
    \/ \E pid \in 1..MaxPipelines : AEnter(pid) \/ Enter(pid)
    \/ \E pid \in 1..MaxPipelines, details \in ExcDetails : AExit(pid, details)
    \/ \E s \in Senders : SenderEnter(s)
    \/ Exit
    \/ \E pid \in 1..MaxPipelines : Run(pid, ScopeRequest, Options(ScopeRequest))
    \/ Step(ScopeRequest)

SpecScope == Init /\ [][NextScope]_vars

\* The caller has built one pipeline and entered its scope, and calls run
\* on it, one run after the other, with these or those options; the full
\* policies may change the options on the way down.
NextOptions ==
    \/ \E kw \in {Options(req) : req \in Requests} : Run(1, ScopeRequest, kw)
    \/ Step(ScopeRequest) \/ PolicyForwardOptions(ScopeRequest)

SpecOptions == InitRun /\ [][NextOptions]_vars

\* The caller has built one pipeline of full policies and of simplified
\* policies whose hooks return or may raise, and has entered its scope.
InitHooks ==
    \E policies \in ListsOf({FullPolicy(1)} \cup SansIOPolicies \cup RaisingPolicies, MaxPolicies),
       sender \in Senders : Built(policies, sender, TRUE)

SpecHooks == InitHooks /\ [][NextRun]_vars

\* No full policy forwards a second time, and a run that can go on does:
\* the event loop resumes a coroutine whose awaited call is done, and the
\* policies and the transport get done.
StepOnce(r) ==
    \/ PolicyForward(r) \/ PolicyShortCircuit(r) \/ PolicyRaise(r)
    \/ SenderRespond(r) \/ SenderFail(r)

NextLive ==
    \/ \E req \in Requests : Run(1, req, Options(req))
    \/ \E r \in Requests : StepOnce(r)

SpecLive == InitHooks /\ [][NextLive]_vars /\ \A r \in Requests : WF_vars(StepOnce(r))

\* ------------------------------------------------------- reading a trace
Started == {r \in Requests : runs[r].status # "idle"}
Finished == {r \in Requests : runs[r].status \in {"returned", "raised"}}

Ends(ev) == ev \in {"return", "short", "raise"}

\* The event that ends the send() entered at t[i]: the first end at the
\* same depth after it, 0 while that send() has not ended.
Close(t, i) ==
    LET js == {j \in (i + 1)..Len(t) : t[j].d = t[i].d /\ Ends(t[j].ev)}
    IN IF js = {} THEN 0 ELSE CHOOSE j \in js : \A k \in js : j <= k

Sends(t) == {i \in 1..Len(t) : t[i].ev = "send"}
SendsOf(t, kind) == {i \in Sends(t) : t[i].node.k = kind}

Fuel == Cardinality(Nodes) + 1
Distinct(seq) == \A i, j \in 1..Len(seq) : seq[i] = seq[j] => i = j

\* ---------------------------------------------------------------------- C1
\* C1: the pipeline just constructed from N policies and a sender has a
\* chain of N+1 distinct nodes from its first node: its N policy nodes in
\* list order, then the sender.
C1_ChainOfAllNodes ==
    pipelines # <<>> =>
        LET pl == pipelines[Len(pipelines)]
            chain == Chain(FirstNode(pl), Fuel)
        IN /\ chain = pl._impl_policies \o <<pl._sender>>
           /\ Distinct(chain)

\* ---------------------------------------------------------------------- C2
\* The adapter's send() entered at t[i]: on_request, the call of next.send
\* when on_request has returned, and after a response on_response and, when
\* on_response has returned, the return.
C2_AdapterAt(t, i) ==
    LET a == t[i].node
        j == Close(t, i + 2)
    IN /\ i + 1 <= Len(t) =>
            /\ t[i + 1].ev = "on_request" /\ t[i + 1].node = _policy[a]
            /\ t[i + 1].d = t[i].d /\ t[i + 1].req = t[i].req
       /\ (i + 2 <= Len(t) /\ t[i + 1].out.t # "err") =>
            /\ t[i + 2].ev = "send" /\ t[i + 2].node = next[a]
            /\ t[i + 2].d = t[i].d + 1 /\ t[i + 2].req = t[i].req
       /\ (/\ i + 2 <= Len(t) /\ t[i + 1].out.t # "err"
           /\ j # 0 /\ j + 1 <= Len(t) /\ t[j].val.t = "resp") =>
            /\ t[j + 1].ev = "on_response" /\ t[j + 1].node = _policy[a]
            /\ t[j + 1].val = t[j].val
            /\ j + 2 <= Len(t) /\ t[j + 2].node = a /\ t[j + 2].d = t[i].d
            /\ t[j + 1].out.t # "err" => t[j + 2].ev = "return" /\ t[j + 2].val = t[j].val
            /\ Close(t, i) = j + 2

\* C2: every send() of an adapter calls its policy's on_request, then calls
\* next.send once with the same request; when that returns a response it
\* calls on_response with that response and returns it as it is, and
\* nothing else is called in between.
C2_AdapterSend ==
    \A r \in Started : \A i \in SendsOf(runs[r].trace, "adapter") :
        C2_AdapterAt(runs[r].trace, i)

\* A finished run on the chain (A simplified, B full, sender) where B
\* forwarded: A.on_request, B.send, ..., A.on_response, in this order.
C2_Witness ==
    \E r \in Finished :
        LET t == runs[r].trace
            pl == pipelines[runs[r].pid]
        IN /\ Len(pl._impl_policies) = 2
           /\ pl._impl_policies[1].k = "adapter" /\ pl._impl_policies[2].k = "full"
           /\ Len(t) = 8
           /\ t[2].ev = "on_request" /\ t[3].ev = "send" /\ t[3].node.k = "full"
           /\ t[4].ev = "send" /\ t[4].node.k = "sender"
           /\ t[6].ev = "return" /\ t[6].node.k = "full"
           /\ t[7].ev = "on_response" /\ t[7].val = t[6].val
           /\ runs[r].status = "returned" /\ runs[r].result = t[6].val

\* ---------------------------------------------------------------------- C3
\* The short-circuit at t[j]: its send() called nothing, and the frame
\* above, or run's caller, gets its response.
C3_ShortAt(run, j) ==
    LET t == run.trace
    IN /\ j > 1 /\ t[j - 1].ev = "send"
       /\ t[j - 1].node = t[j].node /\ t[j - 1].d = t[j].d
       /\ t[j].val = Response(t[j].node, t[j].req)
       /\ j + 1 <= Len(t) =>
            /\ t[j + 1].d = t[j].d - 1
            /\ t[j + 1].ev \in {"on_response", "return"}
            /\ t[j + 1].val = t[j].val
       /\ (t[j].d = 1 /\ run.status # "running") =>
            /\ run.status = "returned" /\ run.result = t[j].val /\ Len(t) = j

\* The send() entered at t[i] is the run's first, or the frame right above
\* called it: on entry, or a full policy retrying after an error.
C3_CalledByFrameAbove(t, i) ==
    i > 1 =>
        /\ t[i].d > 1
        /\ \/ t[i - 1].d = t[i].d - 1 /\ t[i - 1].ev = "send" /\ t[i - 1].node.k = "full"
           \/ t[i - 1].d = t[i].d - 1 /\ t[i - 1].ev = "on_request"
           \/ t[i - 1].d = t[i].d /\ t[i - 1].ev = "raise"
                /\ \E h \in 1..(i - 1) : /\ t[h].ev = "send" /\ t[h].node.k = "full"
                                          /\ t[h].d = t[i].d - 1 /\ Close(t, h) \notin 1..i

\* Where every send() at some depth short-circuited, nothing deeper was
\* called.
C3_NothingBelow(t) ==
    \A i \in Sends(t) :
        (\A h \in Sends(t) : t[h].d = t[i].d =>
            Close(t, h) # 0 /\ t[Close(t, h)].ev = "short")
        => \A k \in 1..Len(t) : t[k].d <= t[i].d

\* C3: a full policy's send() that returns a response of its own has
\* called no node; every send() after a run's first is called by the frame
\* right above it, so when every send() at some depth short-circuited no
\* node below that depth, the sender included, was called; and the caller
\* above, in the end run's caller, gets that response.
C3_ShortCircuit ==
    \A r \in Started :
        LET t == runs[r].trace
        IN /\ \A j \in 1..Len(t) : t[j].ev = "short" => C3_ShortAt(runs[r], j)
           /\ \A i \in Sends(t) : C3_CalledByFrameAbove(t, i)
           /\ C3_NothingBelow(t)

\* A finished run on (simplified, full, sender) whose full policy
\* short-circuited: the sender was not called and run returned the policy's
\* response, which the adapter above it saw in on_response.
C3_Witness ==
    \E r \in Finished :
        LET t == runs[r].trace
        IN /\ Len(pipelines[runs[r].pid]._impl_policies) = 2
           /\ SendsOf(t, "sender") = {}
           /\ \E j \in 1..Len(t) : /\ t[j].ev = "short" /\ t[j].d = 2
                                    /\ t[j + 1].ev = "on_response"
                                    /\ runs[r].result = t[j].val

\* ---------------------------------------------------------------------- C4
\* What sender.send(req, **kw) called directly leaves behind: the sender is
\* called once with req and kw, the caller gets its outcome, and the
\* request's pipeline_context is what it was.
C4_Direct(run, sender) ==
    LET t == run.trace
    IN /\ t[1].ev = "send" /\ t[1].node = sender /\ t[1].d = 1
       /\ t[1].req = run.req /\ t[1].kw = run.kw
       /\ Sends(t) = {1}
       /\ run.status # "running" =>
            /\ Len(t) = 2 /\ t[2].node = sender /\ t[2].val.by = sender
            /\ run.result = t[2].val
            /\ run.status = (IF t[2].ev = "return" THEN "returned" ELSE "raised")

ZeroPolicyRuns == {r \in Started : pipelines[runs[r].pid]._impl_policies = <<>>}

\* C4 as stated: a run on a pipeline of zero policies is the direct call of
\* the sender's send, the request's state included.
C4_SameAsDirectSend ==
    \A r \in ZeroPolicyRuns :
        /\ C4_Direct(runs[r], pipelines[runs[r].pid]._sender)
        /\ request[r].pipeline_context = runs[r].before

\* C4, amended: a run on a pipeline of zero policies is the direct call of
\* the sender's send on the request, after the request's pipeline_context
\* has been set to what the sender's build_context() returned.
C4_DirectSendAfterContext ==
    \A r \in ZeroPolicyRuns :
        /\ C4_Direct(runs[r], pipelines[runs[r].pid]._sender)
        /\ request[r].pipeline_context = runs[r].context
        /\ runs[r].trace[1].ctx = runs[r].context

C4_Witness ==
    \E r \in ZeroPolicyRuns :
        /\ runs[r].status = "returned"
        /\ runs[r].context # None
        /\ runs[r].before # runs[r].context

\* ---------------------------------------------------------------------- C5
\* C5: a non-null context that build_context() returned for a run is the
\* request's pipeline_context whenever a node's send or a policy's
\* on_request is entered in that run.
C5_ContextBeforeNodes ==
    \A r \in Started :
        runs[r].context # None =>
            \A i \in 1..Len(runs[r].trace) :
                runs[r].trace[i].ev \in {"send", "on_request"} =>
                    runs[r].trace[i].ctx = runs[r].context

C5_Witness ==
    \E r \in Finished :
        /\ runs[r].context # None
        /\ \E i \in 1..Len(runs[r].trace) : runs[r].trace[i].ev = "on_request"
        /\ SendsOf(runs[r].trace, "full") # {}
        /\ SendsOf(runs[r].trace, "sender") # {}

\* ---------------------------------------------------------------------- C6
Count(t, ev) == Cardinality({i \in 1..Len(t) : t[i].ev = ev})

\* A finished run on (LoggingPolicy simplified, RetryPolicy full, sender)
\* whose sender was called three times, raised at the first two calls and
\* returned a response at the third, and whose logging hooks returned.
C6_Scenario(r) ==
    LET t == runs[r].trace
        pl == pipelines[runs[r].pid]
        s == SendsOf(t, "sender")
    IN /\ r \in Finished
       /\ \A i \in 1..Len(t) : t[i].out.t # "err"
       /\ Len(pl._impl_policies) = 2
       /\ pl._impl_policies[1].k = "adapter" /\ pl._impl_policies[2].k = "full"
       /\ Cardinality(s) = 3
       /\ \A i \in s : t[Close(t, i)].ev = (IF \E k \in s : k > i THEN "raise" ELSE "return")

\* C6 as stated: the run returns the success response and the logging
\* policy's on_request and on_response are each called three times.
C6_HooksPerAttempt ==
    \A r \in Requests : C6_Scenario(r) =>
        /\ runs[r].status = "returned" /\ runs[r].result.by.k = "sender"
        /\ Count(runs[r].trace, "on_request") = 3
        /\ Count(runs[r].trace, "on_response") = 3

\* C6, amended: the run returns the success response, the sender's third,
\* and the logging policy's on_request and on_response are each called
\* once: the adapter is above the retry policy, whose three attempts all
\* happen inside the adapter's one call of next.send.
C6_HooksOnce ==
    \A r \in Requests : C6_Scenario(r) =>
        LET t == runs[r].trace
        IN /\ runs[r].status = "returned" /\ runs[r].result.by.k = "sender"
           /\ \E i \in SendsOf(t, "sender") : runs[r].result = t[Close(t, i)].val
           /\ Count(t, "on_request") = 1
           /\ Count(t, "on_response") = 1
           /\ Cardinality(SendsOf(t, "full")) = 1

C6_Witness == \E r \in Requests : C6_Scenario(r)

\* ---------------------------------------------------------------------- C7
\* C7: every run that has called a node or has an outcome was called while
\* the pipeline's scope was open.
C7_RunOnlyWhileOpen ==
    \A r \in Started : runs[r].scope = "open"

\* ---------------------------------------------------------------------- C8
\* Each run's frames, calls, responses and errors carry its own request.
C8_OwnRequest ==
    \A r \in Started :
        LET run == runs[r]
        IN /\ run.req = r
           /\ \A i \in 1..Len(run.stack) :
                run.stack[i].req = r /\ run.stack[i].kw = run.kw
           /\ \A i \in 1..Len(run.trace) :
                /\ run.trace[i].req = r /\ run.trace[i].kw = run.kw
                /\ run.trace[i].val.req \in {0, r}
           /\ run.ret.req \in {0, r}
           /\ r \in Finished => run.result.req = r

C8_StepOf(r) == runs'[r] # runs[r]

\* C8: each run's nodes and hooks get that run's request and options, the
\* responses and errors in the run are those made for its request, and a
\* step of one run leaves the chain, the other requests and the other runs
\* as they are.
C8_Isolation ==
    /\ []C8_OwnRequest
    /\ [][\A r \in Requests : C8_StepOf(r) =>
            /\ UNCHANGED <<next, _policy, pipelines>>
            /\ \A q \in Requests \ {r} : runs'[q] = runs[q] /\ request'[q] = request[q]]_vars

\* Two runs in progress at once, the one started first still below its
\* first node while the other has its response.
C8_Witness ==
    \E r, q \in Requests :
        /\ r # q /\ runs[r].call = 1 /\ runs[q].call = 2
        /\ runs[r].status = "running" /\ Len(runs[r].stack) >= 2
        /\ runs[q].status = "returned" /\ Len(runs[q].trace) >= 6
        /\ runs[q].result.req = q

\* ---------------------------------------------------------------------- C9
\* The error raised at t[j] is the sender's; an adapter raises what its
\* next.send raised; the frame above raises it too unless it is a full
\* policy that sends again; out of the first node it is run's error.
C9_RaiseAt(run, j) ==
    LET t == run.trace
    IN /\ t[j].val.t = "err" /\ t[j].val.by.k = "sender"
       /\ \E i \in 1..j : t[i].ev = "raise" /\ t[i].node = t[j].val.by /\ t[i].val = t[j].val
       /\ t[j].node.k = "adapter" =>
            /\ t[j - 1].ev = "raise" /\ t[j - 1].d = t[j].d + 1 /\ t[j - 1].val = t[j].val
       /\ (j + 1 <= Len(t) /\ t[j].d > 1 /\ t[j + 1].ev # "send") =>
            /\ t[j + 1].ev = "raise" /\ t[j + 1].d = t[j].d - 1 /\ t[j + 1].val = t[j].val
       /\ (j + 1 <= Len(t) /\ t[j].d > 1 /\ t[j + 1].ev = "send") =>
            \E h \in 1..j : /\ t[h].ev = "send" /\ t[h].node.k = "full"
                             /\ t[h].d = t[j].d - 1 /\ Close(t, h) \notin 1..j
       /\ (t[j].d = 1 /\ run.status # "running") =>
            /\ j = Len(t) /\ run.status = "raised" /\ run.result = t[j].val

\* C9: an adapter raises the error its next.send raised, as it is and
\* without calling anything more; every error in a run is one the sender
\* or a hook raised; and when the first node's send raises, run raises
\* that error.
C9_ErrorsPropagate ==
    \A r \in Started :
        /\ \A j \in 1..Len(runs[r].trace) :
              runs[r].trace[j].ev = "raise" =>
                  \/ C9_RaiseAt(runs[r], j)
                  \/ runs[r].trace[j].val.by.k = "sansio"
        /\ runs[r].status = "raised" =>
              /\ runs[r].trace[Len(runs[r].trace)].ev = "raise"
              /\ runs[r].trace[Len(runs[r].trace)].val = runs[r].result

\* A run that raised the sender's error through an adapter and a full
\* policy that did not catch it.
C9_Witness ==
    \E r \in Finished :
        LET t == runs[r].trace
        IN /\ runs[r].status = "raised" /\ runs[r].result.by.k = "sender"
           /\ \E j \in 1..Len(t) : t[j].ev = "raise" /\ t[j].node.k = "adapter"
           /\ \E j \in 1..Len(t) : t[j].ev = "raise" /\ t[j].node.k = "full"

\* --------------------------------------------------------------------- C10
\* C10: a synchronous __enter__ of a pipeline or of a sender raises
\* TypeError and leaves every sender's scope and every pipeline's scope as
\* it was, and starts nothing.
C10_SyncEnterFails ==
    [][((\E pid \in 1..MaxPipelines : Enter(pid)) \/ (\E s \in Senders : SenderEnter(s)))
        => /\ exc' = "TypeError"
           /\ senderScope' = senderScope /\ scope' = scope
           /\ runs' = runs /\ pipelines' = pipelines]_vars

\* TypeError was just raised and the pipeline and its sender are unopened.
C10_Witness ==
    /\ exc = "TypeError"
    /\ pipelines # <<>>
    /\ scope[1] = "unopened"
    /\ senderScope[pipelines[1]._sender] = "unopened"

\* --------------------------------------------------------------------- C11
\* Every __aenter__ step of a pipeline awaits one __aenter__() of its sender
\* and returns the pipeline, every __aexit__ step awaits one __aexit__ of
\* its sender with the details it was given, and neither changes the
\* pipeline object.
C11_StepsDelegate ==
    \A pid \in 1..MaxPipelines :
        /\ AEnter(pid) =>
              /\ awaited'.calls = <<SenderCall("__aenter__", pipelines[pid]._sender, <<>>)>>
              /\ awaited'.ret = pid
              /\ pipelines' = pipelines
        /\ \A details \in ExcDetails : AExit(pid, details) =>
              /\ awaited'.calls = <<SenderCall("__aexit__", pipelines[pid]._sender, details)>>
              /\ pipelines' = pipelines

\* The pipeline's sender is the sender of no other pipeline.
C11_OwnSender(pid) ==
    \A q \in 1..Len(pipelines) : pipelines[q]._sender = pipelines[pid]._sender => q = pid

\* C11 as stated: every pipeline __aenter__ is one sender __aenter__ and
\* returns the pipeline, every pipeline __aexit__ is one sender __aexit__
\* with the same details, and after any enters and exits every pipeline's
\* sender is in the state the pipeline is in.
C11_SenderStateIsPipelineState ==
    /\ [][C11_StepsDelegate]_vars
    /\ [](\A pid \in 1..Len(pipelines) : senderScope[pipelines[pid]._sender] = scope[pid])

\* C11, amended: every pipeline __aenter__ is one sender __aenter__ and
\* returns the pipeline, every pipeline __aexit__ is one sender __aexit__
\* with the same details, the pipeline object keeps no state of the scope,
\* and the sender of a pipeline that shares it with no other pipeline is in
\* the state the pipeline is in.
C11_ScopeDelegation ==
    /\ [][C11_StepsDelegate]_vars
    /\ [](\A pid \in 1..Len(pipelines) :
            C11_OwnSender(pid) => senderScope[pipelines[pid]._sender] = scope[pid])

\* Of two pipelines with a sender each, one is open and the other has just
\* been exited with an exception's details.
C11_Witness ==
    \E pid, q \in 1..Len(pipelines) :
        /\ pid # q /\ C11_OwnSender(pid) /\ C11_OwnSender(q)
        /\ scope[q] = "open" /\ senderScope[pipelines[q]._sender] = "open"
        /\ scope[pid] = "closed" /\ senderScope[pipelines[pid]._sender] = "closed"
        /\ awaited = [calls |-> <<SenderCall("__aexit__", pipelines[pid]._sender, "exception")>>,
                      ret |-> 0]

\* --------------------------------------------------------------------- C12
\* The chain of a pipeline holds its policy nodes in list order, each
\* adapter at one position only and wrapping a simplified policy, then the
\* sender.
C12_BuiltInOrder(pl) ==
    LET chain == Chain(FirstNode(pl), Fuel)
        impl == pl._impl_policies
    IN /\ Len(chain) = Len(impl) + 1
       /\ chain[Len(chain)] = pl._sender
       /\ \A i \in 1..Len(impl) :
            /\ chain[i] = impl[i]
            /\ impl[i].k \in {"full", "adapter"}
            /\ impl[i].k = "adapter" =>
                  /\ _policy[impl[i]].k = "sansio"
                  /\ \A j \in 1..Len(impl) : impl[j] = impl[i] => j = i

\* The send() calls entered and not ended among the first k events.
C12_Open(t, k) ==
    Cardinality({i \in 1..k : t[i].ev = "send"}) - Cardinality({i \in 1..k : Ends(t[i].ev)})

\* One node is executing at a time: every event happens in the send()
\* entered last and not ended, and a send() is entered from there.
C12_OneAtATime(t) ==
    \A i \in 1..Len(t) :
        t[i].d = C12_Open(t, i - 1) + (IF t[i].ev = "send" THEN 1 ELSE 0)

\* A finished run where every policy's send() forwarded once: none
\* short-circuited, none sent again, no hook raised, the sender answered.
C12_ForwardedOnce(run) ==
    /\ run.status = "returned"
    /\ \A i \in 1..Len(run.trace) : run.trace[i].ev \notin {"short", "raise"}

C12_IsSend(e) == e.ev = "send"
C12_IsReturn(e) == e.ev = "return"
C12_NodesOf(events) == [i \in 1..Len(events) |-> events[i].node]
C12_Reverse(seq) == [i \in 1..Len(seq) |-> seq[Len(seq) + 1 - i]]

\* C12: the built chain holds the i-th policy at position i, as it is or in
\* an adapter of its own; a run is in one node at a time; and in a run
\* where every policy forwarded once the send() calls are entered in list
\* order with the sender last and return in the reverse order.
C12_OrderAndSequence ==
    /\ \A pid \in 1..Len(pipelines) : C12_BuiltInOrder(pipelines[pid])
    /\ \A r \in Started :
          LET t == runs[r].trace
              pl == pipelines[runs[r].pid]
              order == pl._impl_policies \o <<pl._sender>>
          IN /\ C12_OneAtATime(t)
             /\ C12_ForwardedOnce(runs[r]) =>
                   /\ C12_NodesOf(SelectSeq(t, C12_IsSend)) = order
                   /\ C12_NodesOf(SelectSeq(t, C12_IsReturn)) = C12_Reverse(order)

\* --------------------------------------------------------------------- C13
\* C13: no step (a run's, a scope call, the construction of another
\* pipeline) changes the next of a policy node of a pipeline that exists, or
\* the node its runs start from.
C13_TopologyFixed ==
    [][\A pid \in 1..Len(pipelines) :
          /\ pipelines'[pid] = pipelines[pid]
          /\ FirstNode(pipelines'[pid]) = FirstNode(pipelines[pid])
          /\ \A i \in 1..Len(pipelines[pid]._impl_policies) :
                next'[pipelines[pid]._impl_policies[i]] = next[pipelines[pid]._impl_policies[i]]]_vars

\* --------------------------------------------------------------------- C14
\* The next of a node in a pipeline has been assigned once, that of a node
\* in no pipeline never and is None, and no simplified policy has been
\* given a next.
C14_AssignedOnce ==
    /\ \A n \in PolicyNodes :
          IF \E pid \in 1..Len(pipelines) :
                \E i \in 1..Len(pipelines[pid]._impl_policies) : pipelines[pid]._impl_policies[i] = n
          THEN assigned[n] = 1 /\ next[n] # None
          ELSE assigned[n] = 0 /\ next[n] = None
    /\ \A sp \in SansIOPolicies \cup RaisingPolicies : assigned[sp] = 0

\* C14: the next of every policy node is assigned exactly once, by the
\* construction of a pipeline, and is None before; no simplified policy is
\* given a next; and a step that constructs nothing assigns no next.
C14_NextAssignedOnce ==
    /\ []C14_AssignedOnce
    /\ [][pipelines' = pipelines => assigned' = assigned /\ next' = next]_vars

\* --------------------------------------------------------------------- C15
\* The events the step adds to the trace of the run on request r.
C15_NewEvents(r) ==
    IF runs'[r].call = runs[r].call
    THEN (Len(runs[r].trace) + 1)..Len(runs'[r].trace)
    ELSE 1..Len(runs'[r].trace)

\* C15: no step of a run that was started while the pipeline's scope was
\* open enters send() of the pipeline's sender once the scope has been
\* exited (a run started after the exit is the case of C7).
C15_NoSendAfterExit ==
    [][\A r \in Requests : \A i \in C15_NewEvents(r) :
          LET e == runs'[r].trace[i]
          IN (/\ runs'[r].scope = "open"
              /\ e.ev = "send" /\ e.node = pipelines[runs'[r].pid]._sender)
                => scope[runs'[r].pid] # "closed"]_vars

\* --------------------------------------------------------------------- C16
\* The adapter's send() entered at t[i]. When its next.send raised, send()
\* raises that error next and has called no on_response; when on_request
\* raised, send() raises that error next and has not called next.send.
C16_AdapterAt(t, i) ==
    LET a == t[i].node
        j == Close(t, i + 2)
    IN /\ (i + 2 <= Len(t) /\ t[i + 1].out.t # "err" /\ j # 0 /\ t[j].ev = "raise") =>
            /\ j + 1 <= Len(t)
            /\ t[j + 1].ev = "raise" /\ t[j + 1].node = a /\ t[j + 1].d = t[i].d
            /\ t[j + 1].val = t[j].val
            /\ \A k \in i..(j + 1) : ~(t[k].ev = "on_response" /\ t[k].d = t[i].d)
       /\ (i + 1 <= Len(t) /\ t[i + 1].out.t = "err") =>
            /\ i + 2 <= Len(t)
            /\ t[i + 2].ev = "raise" /\ t[i + 2].node = a /\ t[i + 2].d = t[i].d
            /\ t[i + 2].val = t[i + 1].out
            /\ \A k \in (i + 3)..Len(t) :
                  (t[k].ev = "send" /\ t[k].d = t[i].d + 1) =>
                      \E h \in (i + 3)..k : t[h].d <= t[i].d /\ t[h].ev = "send"

\* C16: in every adapter's send(), an error of next.send is raised on as it
\* is with no call of on_response, and an error of on_request is raised
\* with no call of next.send; on_response is only ever given a response.
C16_HooksSeeNoFailure ==
    \A r \in Started :
        LET t == runs[r].trace
        IN /\ \A i \in SendsOf(t, "adapter") : C16_AdapterAt(t, i)
           /\ \A k \in 1..Len(t) : t[k].ev = "on_response" => t[k].val.t = "resp"

\* A finished run in which an adapter raised the sender's error and an
\* on_request raised.
C16_Witness ==
    \E r \in Finished :
        LET t == runs[r].trace
        IN /\ \E j \in 1..Len(t) : /\ t[j].ev = "raise" /\ t[j].node.k = "adapter"
                                    /\ t[j].val.by.k = "sender"
           /\ \E i \in 1..Len(t) : t[i].ev = "on_request" /\ t[i].out.t = "err"

\* --------------------------------------------------------------------- C17
\* The step is a call of run on request r.
C17_RunCalled(r) == runs'[r].call # runs[r].call

\* C17: a call of run calls build_context() of the pipeline's sender once
\* and sets the request's pipeline_context to what it returned, whatever
\* the request carried before, and the first node finds it there; no other
\* step of a run, a repeated forward included, calls build_context() or
\* writes a pipeline_context, so every node and hook of the run finds that
\* context; with the default build_context() it is None.
C17_ContextOncePerRun ==
    /\ [](\A r \in Started : \A i \in 1..Len(runs[r].trace) :
            runs[r].trace[i].ctx = runs[r].context)
    /\ [][/\ \A r \in Requests : C17_RunCalled(r) =>
              LET sender == pipelines[runs'[r].pid]._sender
              IN /\ buildCalls'[sender] = buildCalls[sender] + 1
                 /\ \A o \in Senders \ {sender} : buildCalls'[o] = buildCalls[o]
                 /\ runs'[r].context = (IF sender = DefaultSender THEN None
                                        ELSE [k |-> "context", p |-> 0, i |-> buildCalls'[sender]])
                 /\ runs'[r].before = request[r].pipeline_context
                 /\ request'[r].pipeline_context = runs'[r].context
                 /\ runs'[r].trace[1].ev = "send" /\ runs'[r].trace[1].ctx = runs'[r].context
                 /\ \A q \in Requests \ {r} : request'[q] = request[q]
          /\ (\A r \in Requests : ~C17_RunCalled(r)) =>
                buildCalls' = buildCalls /\ request' = request]_vars

\* A second run on a request, which carried the first run's context, got
\* a new one and kept it over a repeated forward to the sender.
C17_Witness ==
    \E r \in Finished :
        /\ runs[r].call = 2
        /\ runs[r].before # None /\ runs[r].context # None
        /\ runs[r].before # runs[r].context
        /\ request[r].pipeline_context = runs[r].context
        /\ buildCalls[pipelines[runs[r].pid]._sender] = 2
        /\ Cardinality(SendsOf(runs[r].trace, "sender")) = 2

\* --------------------------------------------------------------------- C18
\* The run has entered at most N+1 send() calls, each of another node.
C18_BoundedSends ==
    \A r \in Started :
        LET t == runs[r].trace
            sends == SelectSeq(t, C12_IsSend)
        IN /\ Len(sends) <= Len(pipelines[runs[r].pid]._impl_policies) + 1
           /\ Distinct(C12_NodesOf(sends))

C19_AdapterAt(t, i) ==
    LET end == IF Close(t, i) = 0 THEN Len(t) ELSE Close(t, i)
    IN \A k \in (i + 1)..end :
          (\/ t[k].d = t[i].d /\ t[k].ev \in {"on_request", "on_response"}
           \/ t[k].d = t[i].d + 1 /\ t[k].ev = "send")
              => t[k].kw = t[i].kw

\* C19: the first node's send() is called with the options run was given,
\* and every adapter calls on_request, next.send and on_response with the
\* options its send() was given, whatever a policy above has made of them.
C19_OptionsPassThrough ==
    \A r \in Started :
        LET t == runs[r].trace
        IN /\ t[1].ev = "send" /\ t[1].node = FirstNode(pipelines[runs[r].pid])
           /\ t[1].kw = runs[r].kw
           /\ \A i \in SendsOf(t, "adapter") : C19_AdapterAt(t, i)

\* A finished run with an adapter below a full policy that changed the
\* options: the first node got the options of run, the hooks and the node
\* below the adapter got the options the adapter got.
C19_Witness ==
    \E r \in Finished :
        LET t == runs[r].trace
        IN /\ runs[r].kw # Options(r) /\ t[1].kw = runs[r].kw
           /\ \E i \in SendsOf(t, "adapter") :
                /\ t[i].kw # runs[r].kw
                /\ t[i + 1].ev = "on_request" /\ t[i + 1].kw = t[i].kw
                /\ t[i + 2].ev = "send" /\ t[i + 2].kw = t[i].kw
                /\ \E k \in 1..Len(t) : /\ t[k].ev = "on_response" /\ t[k].d = t[i].d
                                         /\ t[k].kw = t[i].kw

====
